---- MODULE Spec2Model ----
(***************************************************************************)
(* Number-theoretic transform of c-kzg, src/fft_fr.c: the recursive engine *)
(* fft_fr_fast, the driver fft_fr and the test helper fft_fr_slow.         *)
(*                                                                         *)
(* Memory is one flat array of cells, so that pointer arithmetic of the C  *)
(* code (out + half, in + stride, roots[i * roots_stride]) is address      *)
(* arithmetic here and a wrong offset lands in a neighbouring object.      *)
(* Layout of one call:  buffer A | buffer B | expanded roots | reverse     *)
(* roots.  The field fr_t is scaled down to the prime field of 17          *)
(* elements, which has roots of unity of every order 2^k up to 16.         *)
(***************************************************************************)
EXTENDS Integers, Sequences, FiniteSets, TLC

VARIABLES
    mem,     \* the memory: address -> field element, or Undef if never written
    arg,     \* the arguments of the running fft_fr call: out, in, inverse, n
    fs,      \* the FFTSettings the call was given
    pc,      \* position of fft_fr: "entry", "check", "fast", "done", "trapped"
    loc,     \* locals of fft_fr: stride, inv_len, i
    ret,     \* return value of fft_fr, "none" while it runs
    frames,  \* the activations of fft_fr_fast, by their path in the call tree
    acc,     \* the memory accesses of the last step
    mem0,    \* the memory when the running call was entered
    prev,    \* x: the data of the first call, y: the output of the first call
    phase    \* "first", or what the caller did next: "roundtrip", "restride"

vars == <<mem, arg, fs, pc, loc, ret, frames, acc, mem0, prev, phase>>

(*************************** bounds of the model ***************************)

\* The largest settings have max_width = 2^MaxScale.
MaxScale == 3

\* The lengths n a caller asks for are 0 .. MaxLen, valid or not.
MaxLen == 8

(**************************** field arithmetic *****************************)

\* The order of the (scaled down) field.
Modulus == 17

Fr == 0 .. (Modulus - 1)

\* A cell no one has written yet; not a field element.
Undef == Modulus

fr_add(a, b) == (a + b) % Modulus

fr_sub(a, b) == (a - b + Modulus * Modulus) % Modulus

fr_mul(a, b) == (a * b) % Modulus

fr_from_uint64(k) == k % Modulus

fr_inv(a) == CHOOSE x \in Fr : a % Modulus = 0 \/ (a * x) % Modulus = 1

RECURSIVE fr_pow(_, _)
fr_pow(a, k) == IF k = 0 THEN 1 ELSE fr_mul(a, fr_pow(a, k - 1))

RECURSIVE Pow2(_)
Pow2(k) == IF k = 0 THEN 1 ELSE 2 * Pow2(k - 1)

is_power_of_two(k) == \E e \in 0 .. k : k = Pow2(e)

C_KZG_OK == "C_KZG_OK"

C_KZG_BADARGS == "C_KZG_BADARGS"

(******************************* settings **********************************)

\* Scale2RootOfUnity[s + 1] is a primitive 2^s-th root of unity.
Scale2RootOfUnity == <<1, 16, 13, 9, 3>>

\* The table of roots of settings of the given scale: entry k of the expanded
\* roots is w^k, entry k of the reverse roots is w^(-k).
ExpandedRoot(scale, k) == fr_pow(Scale2RootOfUnity[scale + 1], k)

ReverseRoot(scale, k) == ExpandedRoot(scale, (Pow2(scale) - k) % Pow2(scale))

(******************************** memory ***********************************)

Rd(m, a) == IF a \in DOMAIN m THEN m[a] ELSE Undef

Wr(m, a, v) == IF a \in DOMAIN m THEN [m EXCEPT ![a] = v] ELSE m

\* The memory a caller sets up: data in buffer A, buffer B not yet written,
\* then the two root tables of the settings.
MkMem(x, n, scale) ==
    LET w == Pow2(scale)
    IN  [a \in 0 .. (2 * n + 2 * w - 1) |->
            IF a < n THEN x[a]
            ELSE IF a < 2 * n THEN Undef
            ELSE IF a < 2 * n + w THEN ExpandedRoot(scale, a - 2 * n)
            ELSE ReverseRoot(scale, a - 2 * n - w)]

new_fft_settings(n, scale) ==
    [max_width |-> Pow2(scale),
     expanded_roots_of_unity |-> 2 * n,
     reverse_roots_of_unity |-> 2 * n + Pow2(scale)]

\* The n cells from address a, as a function on 0 .. n-1.
Slice(m, a, n) == [k \in 0 .. (n - 1) |-> Rd(m, a + k)]

(************************* fft_fr_fast, lines 43-58 *************************)

\* One access of a step: the buffer the pointer was derived from ("in", "out",
\* "roots"), the address, whether it is a write, and the slice of out
\* (lo, len) the activation that made it was given.
Access(buf, a, wr, f) == [buf |-> buf, addr |-> a, wr |-> wr, lo |-> f.out, len |-> f.n]

\* An activation of fft_fr_fast: its six arguments and where it stands
\* ("start", "wait1", "wait2", "join", "loop"; i is the loop index of line 49).
Call(out, in, stride, roots, roots_stride, n) ==
    [out |-> out, in |-> in, stride |-> stride, roots |-> roots,
     roots_stride |-> roots_stride, n |-> n, pc |-> "start", i |-> 0]

Half(f) == f.n \div 2

\* Line 47: fft_fr_fast(out, in, stride * 2, roots, roots_stride * 2, half).
EvenCall(f) == Call(f.out, f.in, f.stride * 2, f.roots, f.roots_stride * 2, Half(f))

\* A slip in line 48: the second call given out + n instead of out + half.
OddCall_PastEnd(f) ==
    Call(f.out + f.n, f.in + f.stride, f.stride * 2, f.roots, f.roots_stride * 2, Half(f))

\* A slip in line 48: the second call given out, the slice of the first call.
OddCall_SameOut(f) ==
    Call(f.out, f.in + f.stride, f.stride * 2, f.roots, f.roots_stride * 2, Half(f))

\* A slip in line 48: the roots stride not doubled.
OddCall_RootsStride(f) ==
    Call(f.out + Half(f), f.in + f.stride, f.stride * 2, f.roots, f.roots_stride, Half(f))

\* Line 48: fft_fr_fast(out + half, in + stride, stride * 2, roots, roots_stride * 2, half).
OddCall(f) ==
    Call(f.out + Half(f), f.in + f.stride, f.stride * 2, f.roots, f.roots_stride * 2, Half(f))

\* A slip in line 56: the else branch copies nothing.
BaseCopy_Nothing(m, f) == [mem |-> m, acc |-> {}]

\* Line 56: *out = *in.
BaseCopy(m, f) ==
    [mem |-> Wr(m, f.out, Rd(m, f.in)),
     acc |-> {Access("in", f.in, FALSE, f), Access("out", f.out, TRUE, f)}]

\* A slip in lines 52-53: the addition done first, so that the subtraction
\* reads the new out[i].
Butterfly_AddFirst(m, f, i) ==
    LET hi == f.out + i + Half(f)
        lo == f.out + i
        rt == f.roots + i * f.roots_stride
        y_times_root == fr_mul(Rd(m, hi), Rd(m, rt))
        m1 == Wr(m, lo, fr_add(Rd(m, lo), y_times_root))
        m2 == Wr(m1, hi, fr_sub(Rd(m1, lo), y_times_root))
    IN  [mem |-> m2,
         acc |-> {Access("out", hi, FALSE, f), Access("roots", rt, FALSE, f),
                  Access("out", lo, FALSE, f), Access("out", hi, TRUE, f),
                  Access("out", lo, TRUE, f)}]

\* Lines 50-53, one pass of the loop body, statement by statement.
Butterfly(m, f, i) ==
    LET hi == f.out + i + Half(f)
        lo == f.out + i
        rt == f.roots + i * f.roots_stride
        y_times_root == fr_mul(Rd(m, hi), Rd(m, rt))
        m1 == Wr(m, hi, fr_sub(Rd(m, lo), y_times_root))
        m2 == Wr(m1, lo, fr_add(Rd(m1, lo), y_times_root))
    IN  [mem |-> m2,
         acc |-> {Access("out", hi, FALSE, f), Access("roots", rt, FALSE, f),
                  Access("out", lo, FALSE, f), Access("out", hi, TRUE, f),
                  Access("out", lo, TRUE, f)}]

\* Lines 49-54: the loop from index i on.
RECURSIVE ButterflyLoop(_, _, _)
ButterflyLoop(m, f, i) ==
    IF i < Half(f) THEN ButterflyLoop(Butterfly(m, f, i).mem, f, i + 1) ELSE m

\* Lines 43-58 run to completion, one call after the other: the memory after
\* activation f returns.
RECURSIVE fft_fr_fast(_, _)
fft_fr_fast(m, f) ==
    IF Half(f) > 0
    THEN ButterflyLoop(fft_fr_fast(fft_fr_fast(m, EvenCall(f)), OddCall(f)), f, 0)
    ELSE BaseCopy(m, f).mem

(************************* fft_fr_slow, lines 124-137 **********************)

\* Lines 129-134: the inner loop from index j on, accumulating into last.
RECURSIVE SlowInner(_, _, _, _, _)
SlowInner(m, f, i, j, last) ==
    IF j < f.n
    THEN LET jv == Rd(m, f.in + j * f.stride)
             r == Rd(m, f.roots + ((i * j) % f.n) * f.roots_stride)
         IN  SlowInner(m, f, i, j + 1, fr_add(last, fr_mul(jv, r)))
    ELSE last

\* The contents fft_fr_slow leaves in out[0 .. n-1].
fft_fr_slow(m, f) ==
    [i \in 0 .. (f.n - 1) |->
        SlowInner(m, f, i, 1, fr_mul(Rd(m, f.in), Rd(m, f.roots)))]

(***************************** fft_fr, lines 71-87 **************************)

\* A slip in line 72: the stride of the roots left at 1.
Stride_One(max_width, n) == 1

\* A slip in line 72: the division by n left out.
Stride_Width(max_width, n) == max_width

\* Line 72: uint64_t stride = fs->max_width / n, for n > 0.
Stride(max_width, n) == max_width \div n

\* A slip in lines 73-74: the check against max_width left out.
ArgsOk_NoWidthCheck(n, max_width) == is_power_of_two(n)

\* Lines 73-74: the conditions of the two CHECKs.
ArgsOk(n, max_width) == n <= max_width /\ is_power_of_two(n)

\* A slip in lines 79/84: the expanded roots used in both directions.
RootsFor_Expanded(settings, inverse) == settings.expanded_roots_of_unity

\* Lines 79 and 84: the table of roots the engine is given.
RootsFor(settings, inverse) ==
    IF inverse THEN settings.reverse_roots_of_unity ELSE settings.expanded_roots_of_unity

\* Lines 77-78: fr_from_uint64(&inv_len, n); fr_inv(&inv_len, &inv_len).
InvLen(n) == fr_inv(fr_from_uint64(n))

\* Lines 79 and 84: the top activation, fft_fr_fast(out, in, 1, roots, stride, n).
RootCall(a, settings, stride) ==
    Call(a.out, a.in, 1, RootsFor(settings, a.inverse), stride, a.n)

\* Line 81: fr_mul(&out[i], &out[i], &inv_len).
ScaleOne(m, a, i, inv_len) ==
    [mem |-> Wr(m, a.out + i, fr_mul(Rd(m, a.out + i), inv_len)),
     acc |-> {Access("out", a.out + i, FALSE, a), Access("out", a.out + i, TRUE, a)}]

NoFrames == [p \in {} |-> 0]

Root == <<>>

Drop(fr, p) == [q \in DOMAIN fr \ {p} |-> fr[q]]

\* Line 72.  For n = 0 the division is undefined: the process traps, or some
\* value is left in stride and the call goes on.
fft_fr_Enter ==
    /\ pc = "entry"
    /\ IF arg.n = 0
       THEN \/ /\ pc' = "trapped"
               /\ loc' = loc
            \/ /\ pc' = "check"
               /\ \E s \in 0 .. fs.max_width : loc' = [loc EXCEPT !.stride = s]
       ELSE /\ pc' = "check"
            /\ loc' = [loc EXCEPT !.stride = Stride(fs.max_width, arg.n)]
    /\ acc' = {}
    /\ UNCHANGED <<mem, arg, fs, ret, frames, mem0, prev, phase>>

\* Lines 73-74, and for valid arguments lines 75-79 or 84 up to the call of
\* the engine.
fft_fr_Check ==
    /\ pc = "check"
    /\ IF ArgsOk(arg.n, fs.max_width)
       THEN /\ pc' = "fast"
            /\ loc' = [loc EXCEPT !.inv_len = IF arg.inverse THEN InvLen(arg.n) ELSE @,
                                  !.i = 0]
            /\ frames' = (Root :> RootCall(arg, fs, loc.stride))
            /\ ret' = ret
       ELSE /\ pc' = "done"
            /\ ret' = C_KZG_BADARGS
            /\ UNCHANGED <<loc, frames>>
    /\ acc' = {}
    /\ UNCHANGED <<mem, arg, fs, mem0, prev, phase>>

\* The engine has returned to fft_fr.
EngineReturned == pc = "fast" /\ DOMAIN frames = {}

\* Lines 80-82, one pass of the loop.
fft_fr_Scale ==
    /\ EngineReturned
    /\ arg.inverse
    /\ loc.i < arg.n
    /\ mem' = ScaleOne(mem, arg, loc.i, loc.inv_len).mem
    /\ acc' = ScaleOne(mem, arg, loc.i, loc.inv_len).acc
    /\ loc' = [loc EXCEPT !.i = @ + 1]
    /\ UNCHANGED <<arg, fs, pc, ret, frames, mem0, prev, phase>>

\* Line 86.
fft_fr_Return ==
    /\ EngineReturned
    /\ arg.inverse => loc.i = arg.n
    /\ pc' = "done"
    /\ ret' = C_KZG_OK
    /\ acc' = {}
    /\ UNCHANGED <<mem, arg, fs, loc, frames, mem0, prev, phase>>

(************************ the steps of fft_fr_fast **************************)

Even(p) == Append(p, 0)

Odd(p) == Append(p, 1)

\* Where activation p may go on to the loop of line 49: its second call has
\* returned (or, forked, both have), or it is in the loop already.
AtLoop(p) ==
    \/ frames[p].pc = "loop"
    \/ frames[p].pc = "wait2" /\ Odd(p) \notin DOMAIN frames
    \/ frames[p].pc = "join" /\ Even(p) \notin DOMAIN frames /\ Odd(p) \notin DOMAIN frames

\* Lines 45-47: half > 0, the first recursive call is made.
Fast_Descend(p) ==
    /\ frames[p].pc = "start"
    /\ Half(frames[p]) > 0
    /\ frames' = [frames EXCEPT ![p].pc = "wait1"] @@ (Even(p) :> EvenCall(frames[p]))
    /\ acc' = {}
    /\ UNCHANGED <<mem, arg, fs, pc, loc, ret, mem0, prev, phase>>

\* Line 48: the first call has returned, the second is made.
Fast_Second(p) ==
    /\ frames[p].pc = "wait1"
    /\ Even(p) \notin DOMAIN frames
    /\ frames' = [frames EXCEPT ![p].pc = "wait2"] @@ (Odd(p) :> OddCall(frames[p]))
    /\ acc' = {}
    /\ UNCHANGED <<mem, arg, fs, pc, loc, ret, mem0, prev, phase>>

\* Lines 45-48 with the two recursive calls forked to run side by side.
Fast_Fork(p) ==
    /\ frames[p].pc = "start"
    /\ Half(frames[p]) > 0
    /\ frames' = [frames EXCEPT ![p].pc = "join"]
                    @@ (Even(p) :> EvenCall(frames[p])) @@ (Odd(p) :> OddCall(frames[p]))
    /\ acc' = {}
    /\ UNCHANGED <<mem, arg, fs, pc, loc, ret, mem0, prev, phase>>

\* Lines 55-57: half = 0, the copy, and the return.
Fast_Base(p) ==
    /\ frames[p].pc = "start"
    /\ Half(frames[p]) = 0
    /\ mem' = BaseCopy(mem, frames[p]).mem
    /\ acc' = BaseCopy(mem, frames[p]).acc
    /\ frames' = Drop(frames, p)
    /\ UNCHANGED <<arg, fs, pc, loc, ret, mem0, prev, phase>>

\* Lines 49-54: one pass of the loop; after the last pass the call returns.
Fast_Butterfly(p) ==
    /\ AtLoop(p)
    /\ frames[p].i < Half(frames[p])
    /\ mem' = Butterfly(mem, frames[p], frames[p].i).mem
    /\ acc' = Butterfly(mem, frames[p], frames[p].i).acc
    /\ frames' = IF frames[p].i + 1 < Half(frames[p])
                 THEN [frames EXCEPT ![p].pc = "loop", ![p].i = @ + 1]
                 ELSE Drop(frames, p)
    /\ UNCHANGED <<arg, fs, pc, loc, ret, mem0, prev, phase>>

(******************************* the callers ********************************)

\* roundtrip_fft, lines 172-173: the inverse transform of the output of a
\* forward transform, written back over the data.
Caller_Roundtrip ==
    /\ pc = "done" /\ ret = C_KZG_OK /\ phase = "first" /\ ~arg.inverse
    /\ arg' = [out |-> arg.in, in |-> arg.out, inverse |-> TRUE, n |-> arg.n]
    /\ phase' = "roundtrip"
    /\ prev' = [prev EXCEPT !.y = Slice(mem, arg.out, arg.n)]
    /\ pc' = "entry"
    /\ ret' = "none"
    /\ loc' = [stride |-> 0, inv_len |-> 0, i |-> 0]
    /\ acc' = {}
    /\ mem0' = mem
    /\ UNCHANGED <<mem, fs, frames>>

\* stride_fft, lines 220-221: the same data transformed again with settings of
\* another max_width, into a fresh output buffer.
Caller_Restride ==
    /\ pc = "done" /\ ret = C_KZG_OK /\ phase = "first"
    /\ \E scale \in 0 .. MaxScale :
          /\ Pow2(scale) # fs.max_width
          /\ Pow2(scale) >= arg.n
          /\ mem' = MkMem(prev.x, arg.n, scale)
          /\ mem0' = MkMem(prev.x, arg.n, scale)
          /\ fs' = new_fft_settings(arg.n, scale)
    /\ phase' = "restride"
    /\ prev' = [prev EXCEPT !.y = Slice(mem, arg.out, arg.n)]
    /\ pc' = "entry"
    /\ ret' = "none"
    /\ loc' = [stride |-> 0, inv_len |-> 0, i |-> 0]
    /\ acc' = {}
    /\ UNCHANGED <<arg, frames>>

(***************************** specifications *******************************)

\* A caller with data x of length n and settings of the given scale calls
\* fft_fr(B, A, inverse, n, fs).
InitCall(scale, n, inverse, x) ==
    /\ mem = MkMem(x, n, scale)
    /\ mem0 = MkMem(x, n, scale)
    /\ arg = [out |-> n, in |-> 0, inverse |-> inverse, n |-> n]
    /\ fs = new_fft_settings(n, scale)
    /\ pc = "entry"
    /\ loc = [stride |-> 0, inv_len |-> 0, i |-> 0]
    /\ ret = "none"
    /\ frames = NoFrames
    /\ acc = {}
    /\ prev = [x |-> x, y |-> [k \in 0 .. (n - 1) |-> Undef]]
    /\ phase = "first"

\* The data of the repository's tests (lines 145-147): data[i] = i.
TestData(n) == [k \in 0 .. (n - 1) |-> fr_from_uint64(k)]

\* The data the callers of the model pass: every sequence of zeros and ones,
\* and the tests' data.
Data(n) == [0 .. (n - 1) -> {0, 1}] \cup {TestData(n)}

\* A unit impulse at k.
Impulse(n, k) == [j \in 0 .. (n - 1) |-> IF j = k THEN 1 ELSE 0]

Init ==
    \E scale \in 0 .. MaxScale, n \in 0 .. MaxLen, inverse \in BOOLEAN :
        \E x \in Data(n) : InitCall(scale, n, inverse, x)

Next ==
    \/ fft_fr_Enter
    \/ fft_fr_Check
    \/ fft_fr_Scale
    \/ fft_fr_Return
    \/ \E p \in DOMAIN frames : Fast_Descend(p)
    \/ \E p \in DOMAIN frames : Fast_Second(p)
    \/ \E p \in DOMAIN frames : Fast_Base(p)
    \/ \E p \in DOMAIN frames : Fast_Butterfly(p)
    \/ Caller_Roundtrip
    \/ Caller_Restride

Spec == Init /\ [][Next]_vars

\* The fork-join variant of the engine, on valid lengths, with the tests' data
\* and the unit impulses.
InitPar ==
    \E scale \in 0 .. MaxScale, n \in 1 .. MaxLen, inverse \in BOOLEAN :
        /\ ArgsOk(n, Pow2(scale))
        /\ \E x \in {TestData(n)} \cup {Impulse(n, k) : k \in 0 .. (n - 1)} :
              InitCall(scale, n, inverse, x)

NextPar ==
    \/ fft_fr_Enter
    \/ fft_fr_Check
    \/ fft_fr_Scale
    \/ fft_fr_Return
    \/ \E p \in DOMAIN frames : Fast_Fork(p)
    \/ \E p \in DOMAIN frames : Fast_Base(p)
    \/ \E p \in DOMAIN frames : Fast_Butterfly(p)

SpecPar == InitPar /\ [][NextPar]_vars

(******************************** claims ************************************)

OutNow == Slice(mem, arg.out, arg.n)

OutAtEntry == Slice(mem0, arg.out, arg.n)

InAtEntry == Slice(mem0, arg.in, arg.n)

TopCall == RootCall(arg, fs, loc.stride)

\* The engine has returned and fft_fr has not yet touched its output.
FastJustReturned == EngineReturned /\ loc.i = 0

\* The sum over j in k .. n-1 of in[j] * roots[((i*j) mod n) * roots_stride],
\* for the arguments of the top call.
RECURSIVE DirectSum(_, _)
DirectSum(i, k) ==
    IF k >= arg.n THEN 0
    ELSE fr_add(fr_mul(mem[arg.in + k],
                       mem[TopCall.roots + ((i * k) % arg.n) * TopCall.roots_stride]),
                DirectSum(i, k + 1))

\* C1: when fft_fr_fast(out, in, 1, roots, roots_stride, n) returns, out[i] is
\* the sum over j of in[j] * roots[((i*j) mod n) * roots_stride] for every i,
\* which is what fft_fr_slow computes from the same arguments.
C1_FastEqualsSlow ==
    FastJustReturned =>
        /\ OutNow = fft_fr_slow(mem, TopCall)
        /\ \A i \in 0 .. (arg.n - 1) : OutNow[i] = DirectSum(i, 0)

C1_Witness ==
    /\ FastJustReturned
    /\ arg.n = 8
    /\ \E k \in 1 .. 7 : OutNow[k] # OutNow[0]

\* C2: a forward fft_fr followed by an inverse fft_fr on its result, with the
\* same settings, both return C_KZG_OK, and the second yields the original
\* data, element by element.
C2_RoundTrip ==
    /\ (pc = "done" /\ arg.n >= 1 /\ arg.n <= fs.max_width /\ is_power_of_two(arg.n))
          => ret = C_KZG_OK
    /\ (pc = "done" /\ phase = "roundtrip") => (ret = C_KZG_OK /\ OutNow = prev.x)

C2_Witness ==
    /\ pc = "done"
    /\ phase = "roundtrip"
    /\ arg.n = 8
    /\ prev.x = TestData(8)
    /\ prev.y # prev.x

\* C3: with the same data and length, fft_fr gives the same output under
\* settings of another max_width (another stride of the roots) as it gave
\* under the first settings.
C3_StrideIndependent ==
    (pc = "done" /\ phase = "restride") => (ret = C_KZG_OK /\ OutNow = prev.y)

C3_Witness ==
    /\ pc = "done"
    /\ phase = "restride"
    /\ arg.n = 4
    /\ fs.max_width = 8
    /\ loc.stride = 2
    /\ prev.x = TestData(4)
    /\ OutNow = prev.y

\* C4: for n > max_width, or n > 0 not a power of two, fft_fr returns
\* C_KZG_BADARGS, fft_fr_fast is never entered, and out holds what it held at
\* entry.
C4_BadArgsRejected ==
    (arg.n > fs.max_width \/ (arg.n > 0 /\ ~is_power_of_two(arg.n)))
        => /\ pc \in {"entry", "check", "done"}
           /\ DOMAIN frames = {}
           /\ OutNow = OutAtEntry
           /\ pc = "done" => ret = C_KZG_BADARGS

C4_Witness ==
    /\ pc = "done"
    /\ ret = C_KZG_BADARGS
    /\ arg.n = 4
    /\ fs.max_width = 2

\* C5: for n = 0, fft_fr rejects the call before anything is computed from n
\* (the division of line 72 included): it is at its entry, or has returned
\* C_KZG_BADARGS with out as it was.
C5_ZeroLengthRejectedFirst ==
    arg.n = 0 => \/ pc = "entry"
                 \/ pc = "done" /\ ret = C_KZG_BADARGS /\ mem = mem0

\* C6: for n = 1 and any settings, fft_fr returns C_KZG_OK with out[0] = in[0],
\* forward and inverse.
C6_LengthOne ==
    (pc = "done" /\ arg.n = 1) => (ret = C_KZG_OK /\ OutNow[0] = InAtEntry[0])

C6_Witness ==
    /\ pc = "done"
    /\ arg.n = 1
    /\ arg.inverse
    /\ phase = "first"
    /\ fs.max_width = 4
    /\ OutNow[0] = 1

\* A step of a running call leaves the settings, the arguments and every cell
\* outside out[0 .. n-1] as they were.
WritesOnlyOut ==
    pc \in {"entry", "check", "fast"} =>
        /\ fs' = fs
        /\ arg' = arg
        /\ DOMAIN mem' = DOMAIN mem
        /\ \A a \in DOMAIN mem :
              mem'[a] # mem[a] => (arg.out <= a /\ a < arg.out + arg.n)

\* C7: no step of a running fft_fr call changes the input sequence, either
\* table of roots, or the settings; only cells of out[0 .. n-1] are written.
C7_OnlyOutWritten == [][WritesOnlyOut]_vars

C7_Witness ==
    /\ pc = "done"
    /\ ret = C_KZG_OK
    /\ arg.inverse
    /\ arg.n = 8
    /\ \A k \in 0 .. 7 : OutNow[k] # OutAtEntry[k]
    /\ Slice(mem, arg.in, arg.n) = InAtEntry

Parent(q) == SubSeq(q, 1, Len(q) - 1)

InOut(a) == arg.out <= a /\ a < arg.out + arg.n

\* C8: with the two recursive calls of every level forked, each call touches
\* only its own half of its parent's slice of out (the even call the first
\* half, the odd call the second), reads outside out are never of a cell
\* some call writes, and whatever the interleaving the engine leaves the
\* memory that the calls run one after the other leave.
C8_ForkJoinSameResult ==
    /\ \A q \in DOMAIN frames \ {Root} :
          /\ Parent(q) \in DOMAIN frames
          /\ frames[q].n = Half(frames[Parent(q)])
          /\ frames[q].out = frames[Parent(q)].out + q[Len(q)] * Half(frames[Parent(q)])
    /\ \A e \in acc :
          IF e.buf = "out"
          THEN e.lo <= e.addr /\ e.addr < e.lo + e.len
          ELSE ~e.wr /\ ~InOut(e.addr)
    /\ FastJustReturned => mem = fft_fr_fast(mem0, TopCall)

C8_Witness ==
    /\ Even(Root) \in DOMAIN frames
    /\ Odd(Root) \in DOMAIN frames
    /\ frames[Root].n = 8
    /\ frames[Even(Root)].pc = "start"
    /\ frames[Odd(Root)].pc = "loop"
    /\ \E e \in acc : e.wr /\ e.lo = arg.out + 4

\* C9: every access of a call is in bounds: reads of in at an index below n,
\* reads and writes of out at an index below n, reads of the table of roots
\* at an index below max_width.
C9_AccessesInBounds ==
    \A e \in acc :
        /\ e.buf = "in" => (arg.in <= e.addr /\ e.addr < arg.in + arg.n)
        /\ e.buf = "out" => (arg.out <= e.addr /\ e.addr < arg.out + arg.n)
        /\ e.buf = "roots" => /\ RootsFor(fs, arg.inverse) <= e.addr
                              /\ e.addr < RootsFor(fs, arg.inverse) + fs.max_width

C9_Witness ==
    /\ pc = "fast"
    /\ arg.n = 8
    /\ \E e \in acc : e.buf = "roots" /\ e.addr = RootsFor(fs, arg.inverse) + 3
    /\ \E e \in acc : e.buf = "out" /\ e.wr /\ e.addr = arg.out + 7

\* What a pass of the loop of activation p does, in terms of the values before it.
ButterflyPost(p) ==
    LET f == frames[p]
        hi == f.out + f.i + Half(f)
        lo == f.out + f.i
        t == fr_mul(mem[hi], mem[f.roots + f.i * f.roots_stride])
    IN  /\ mem'[hi] = fr_sub(mem[lo], t)
        /\ mem'[lo] = fr_add(mem[lo], t)
        /\ \A a \in DOMAIN mem \ {hi, lo} : mem'[a] = mem[a]

AllButterflyPost == \A p \in DOMAIN frames : Fast_Butterfly(p) => ButterflyPost(p)

\* C10: a pass i of the butterfly loop of an activation with slice out and
\* n = 2*half sets out[i+half] to out[i] - t and out[i] to out[i] + t, where
\* t = out[i+half] * roots[i * roots_stride] and all three are the values
\* before the pass; no other cell changes.
C10_ButterflyStep == [][AllButterflyPost]_vars

C10_Witness ==
    /\ Root \in DOMAIN frames
    /\ frames[Root].n = 8
    /\ frames[Root].pc = "loop"
    /\ frames[Root].i = 2
    /\ \E e \in acc : e.wr /\ e.addr = arg.out + 1 /\ mem[e.addr] # mem[e.addr + 4]

====
